---- MODULE Spec2Model ----
(***************************************************************************)
(* Memristor crossbars driven by learning rules.                           *)
(*                                                                         *)
(*   src/memristor_nengo/learning_rules.py      SimmPES.make_step,         *)
(*                                               build_mpes                *)
(*   src/memristor_learning/MemristorLearningRules.py                      *)
(*                                               find_spikes and the       *)
(*                                               rules mHopfieldHebbian,   *)
(*                                               mOja, mBCM, mPES          *)
(*                                                                         *)
(* Numbers.  Resistances are whole ohms.  The floating point values the    *)
(* power law goes through are floats with a mantissa of MantBits           *)
(* fractional bits and an unbounded exponent (IEEE doubles have 52):       *)
(* a value is [k, m, e], k the kind ("fin", "inf", "nan") and, for a       *)
(* finite one, m * 2^e / One with One <= m < 2*One.  x ** y is computed    *)
(* as 2 ** (y * log2 x).  Activities are in quarters (4 is a rate of 1.0),   *)
(* errors in units of 5e-6, weights in units of 2^-39 of the normalised    *)
(* conductance.                                                            *)
(***************************************************************************)
EXTENDS Integers, Sequences, FiniteSets

VARIABLES
    rule,            \* which object this run simulates
    t,               \* steps taken so far
    x,               \* the signals of the last step: pre, post, theta, error
    memristors,      \* learning rules: resistance of the device at (j, i)
    weights,         \* learning rules: self.weights
    output,          \* learning rules: the vector the last step returned
    last_error,      \* mPES: self.last_error
    pulses,          \* the pulse() calls of the last step, in call order
    pos_memristors,  \* SimmPES: signals[ pos_memristors ]
    neg_memristors,  \* SimmPES: signals[ neg_memristors ]
    delta,           \* SimmPES: signals[ delta ]
    spiked_map,      \* learning rules: the gate of the last step
    direction,       \* learning rules: the pulse instructions of the last step
    device,          \* the resistance of one device pulsed on its own
    old              \* the device states and weights before the last step

vars == <<rule, t, x, memristors, weights, output, last_error, pulses,
          pos_memristors, neg_memristors, delta, spiked_map, direction,
          device, old>>

(***************************************************************************)
(* Bounds of the model.                                                    *)
(***************************************************************************)
MaxSteps == 2
input_size == 2
output_size == 1

MaxPulses == 12

\* rates 0, 0.5, 1.0 (in quarters)
Activities == {0, 2, 4}
\* rates 0 and 1.0 for mOja and mBCM
Rates == {0, 4}
\* rates 0, 0.25, 0.5, 0.75, 1.0, 1.5, 2.5 for the gate on its own
GateActivities == {0, 1, 2, 3, 4, 6, 10}
\* errors -1.5e-5, 0, 1e-5, 1.5e-5 (in units of 5e-6)
Errors == {-3, 0, 2, 3}
\* the errors step_simmpes is given: -1.5e-5, 0, 5e-6
SimmErrors == {-3, 0, 1}
\* BCM thresholds 0.5 and 1.5 (in quarters)
Thetas == {2, 6}

\* the crossbar of a rule with self.output_size = outs
Cols == 1 .. input_size
Slots == (1 .. output_size) \X Cols
SlotsOf(outs) == (1 .. outs) \X Cols

(***************************************************************************)
(* Device constants of step_simmpes.                                       *)
(***************************************************************************)
r_min == 100
r_max == 250000000
\* a = -0.1802, in units of 1 / AScale
a == -1802
AScale == 10 ^ 4
\* build_mpes draws every device uniformly from [1e8, 1.1e8]
InitialResistances == {100000000, 110000000}

(***************************************************************************)
(* Floating point.                                                         *)
(***************************************************************************)
MantBits == 14
One == 2 ^ MantBits

Inf == [k |-> "inf", m |-> 0, e |-> 0]
NaN == [k |-> "nan", m |-> 0, e |-> 0]
Fin(m, e) == [k |-> "fin", m |-> m, e |-> e]

\* floor(log2 v) for v >= 1
RECURSIVE ILog2(_)
ILog2(v) ==
    IF v >= 2 ^ 16 THEN 16 + ILog2(v \div 2 ^ 16)
    ELSE IF v >= 2 ^ 4 THEN 4 + ILog2(v \div 2 ^ 4)
    ELSE IF v >= 2 THEN 1 + ILog2(v \div 2)
    ELSE 0

\* the float nearest below the integer v >= 1
FromInt(v) ==
    LET e == ILog2(v)
    IN  Fin(IF e >= MantBits THEN v \div 2 ^ (e - MantBits)
                             ELSE v * 2 ^ (MantBits - e), e)

\* floor of a finite float: 0 when it is below 1, and 2^30 (more than any
\* resistance in range) when it is 2^30 or more
ToInt(f) ==
    IF f.e >= 30 THEN 2 ^ 30
    ELSE IF f.e >= MantBits THEN f.m * 2 ^ (f.e - MantBits)
    ELSE IF f.e < 0 THEN 0
    ELSE f.m \div 2 ^ (MantBits - f.e)

\* log2 of a mantissa in [One, 2*One), by repeated squaring, in units 1/One
RECURSIVE LogMant(_, _, _)
LogMant(m, i, r) ==
    IF i = 0 THEN r
    ELSE LET s == (m * m) \div One
         IN  IF s >= 2 * One THEN LogMant(s \div 2, i - 1, 2 * r + 1)
                             ELSE LogMant(s, i - 1, 2 * r)

Log2F(f) == f.e * One + LogMant(f.m, MantBits, 0)

\* 2 ^ (2 ^ -i) for i = 1 .. MantBits, in units 1/One
TwoRoot == <<23170, 19484, 17867, 17109, 16743, 16562, 16473,
             16428, 16406, 16395, 16390, 16387, 16385, 16385>>

\* 2 ^ (fr / One) for 0 <= fr < One, as a mantissa
RECURSIVE ExpFrac(_, _, _)
ExpFrac(fr, i, m) ==
    IF i > MantBits THEN m
    ELSE IF (fr \div 2 ^ (MantBits - i)) % 2 = 1
         THEN ExpFrac(fr, i + 1, (m * TwoRoot[i]) \div One)
         ELSE ExpFrac(fr, i + 1, m)

Exp2F(y) == Fin(ExpFrac(y % One, 1, One), y \div One)

\* floor(l * p / q) for q > 0, without leaving 32 bits
MulDiv(l, p, q) == (l \div q) * p + ((l % q) * p) \div q

\* y * num / den
TimesRatio(y, num, den) ==
    IF den < 0 THEN MulDiv(y, -num, -den) ELSE MulDiv(y, num, den)

\* the finite float m * 2^e / One for any m > 0, its mantissa brought back
\* into [One, 2*One)
RECURSIVE Normalize(_, _)
Normalize(m, e) ==
    IF m >= 2 * One THEN Normalize(m \div 2, e + 1)
    ELSE IF m < One THEN Normalize(2 * m, e - 1)
    ELSE Fin(m, e)

\* f + d for d in {1, -1}: a float whose last mantissa bit counts more than
\* one unit absorbs the addend (n + 1 = n), as a double does from 2^53 on
AddUnit(f, d) ==
    IF f.k # "fin" THEN f
    ELSE IF f.e > MantBits THEN f
    ELSE IF f.e < 0
         THEN (IF d > 0 THEN Fin(One + f.m \div 2 ^ (-f.e), 0) ELSE NaN)
    ELSE LET m2 == f.m + d * 2 ^ (MantBits - f.e)
         IN  IF m2 <= 0 THEN NaN ELSE Normalize(m2, f.e)

(***************************************************************************)
(* The power law of step_simmpes.                                          *)
(***************************************************************************)
\* log2 of r_max
Log2RMax == Log2F(FromInt(r_max))

\* ((R - r_min) / r_max) ** (1 / a): the pulse number a resistance implies.
\* A zero base to a negative power is inf, a negative base is nan.
PulseNumber(R) ==
    IF R = r_min THEN Inf
    ELSE IF R < r_min THEN NaN
    ELSE Exp2F(TimesRatio(Log2F(FromInt(R - r_min)) - Log2RMax,
                          AScale, a))

\* a faulty variant: the exponent of the law with its sign lost
ResistanceAtPositiveExponent(n) ==
    IF n.k = "nan" THEN 0 - 1
    ELSE IF n.k = "inf" THEN 2 * r_max
    ELSE r_min + ToInt(Exp2F(TimesRatio(Log2F(n), -a, AScale)
                             + Log2RMax))

\* r_min + r_max * n ** a: the resistance at pulse number n.  inf ** a is 0;
\* nan stays nan, written -1.
ResistanceAt(n) ==
    IF n.k = "nan" THEN 0 - 1
    ELSE IF n.k = "inf" THEN r_min
    ELSE r_min + ToInt(Exp2F(TimesRatio(Log2F(n), a, AScale)
                             + Log2RMax))

\* a faulty variant: the pulse counted down instead of up
PulsedDown(R) == ResistanceAt(AddUnit(PulseNumber(R), -1))

\* one pulse: n = ((R - r_min) / r_max) ** (1 / a), then
\* R = r_min + r_max * (n + 1) ** a
Pulsed(R) == ResistanceAt(AddUnit(PulseNumber(R), 1))

(***************************************************************************)
(* Resistance to conductance.                                              *)
(***************************************************************************)
\* floor(num * 2^k / den) for num >= 0 and 0 < den <= 2^30, bit by bit
RECURSIVE LongDivDigits(_, _, _, _)
LongDivDigits(q, r, den, k) ==
    IF k = 0 THEN q
    ELSE LongDivDigits(2 * q + (2 * r) \div den, (2 * r) % den, den, k - 1)

LongDiv(num, den, k) == LongDivDigits(num \div den, num % den, den, k)

\* resistance2conductance: g_norm = (1/R - g_min) / (g_max - g_min), with
\* g_min = 1 / r_max and g_max = 1 / r_min, which is
\* (r_min / R) * (r_max - R) / (r_max - r_min); in units of 2^-39 (the gain
\* is a change of unit).  Negative above r_max; nan (R = -1) is written 0.
resistance2conductance(R) ==
    IF R <= 0 THEN 0
    ELSE IF R > r_max
         THEN 0 - LongDiv(LongDiv(R - r_max, r_max - r_min, 21) * r_min, R, 18)
         ELSE LongDiv(LongDiv(r_max - R, r_max - r_min, 21) * r_min, R, 18)

(***************************************************************************)
(* Two-limb numbers [hi, lo] = hi + lo * 2^-39 with |lo| < 2^31: a product *)
(* of activities is whole, a product with a weight is in 2^-39ths.         *)
(***************************************************************************)
Num(hi, lo) == [hi |-> hi, lo |-> lo]
NumNeg(p) == Num(0 - p.hi, 0 - p.lo)
NumSub(p, q) == Num(p.hi - q.hi, p.lo - q.lo)
Sgn(v) == IF v > 0 THEN 1 ELSE IF v < 0 THEN 0 - 1 ELSE 0
NumSign(p) == IF p.hi # 0 THEN Sgn(p.hi) ELSE Sgn(p.lo)
NumLess(p, q) == NumSign(NumSub(p, q)) < 0

(***************************************************************************)
(* The device a learning rule pulses: memristors[ j, i ].pulse( signal,    *)
(* value="conductance", method ).                                          *)
(***************************************************************************)
\* a pulse that lowers the conductance: the pulse number counted down,
\* the resistance kept at or below r_max
Depressed(R) ==
    LET n == AddUnit(PulseNumber(R), -1)
    IN  IF n.k = "nan" \/ (n.k = "fin" /\ n.e < 0) THEN r_max
        ELSE IF ResistanceAt(n) > r_max THEN r_max ELSE ResistanceAt(n)

(***************************************************************************)
(* The resistances the runs meet, with the pulse and the conversion worked *)
(* out once for each of them.                                              *)
(***************************************************************************)
\* resistances the law is tried on, from r_min up to r_max
LawSamples == {r_min, 101, 102, 100000000, 102500000, 105000000,
               107500000, 110000000, 200000000, r_max}

\* a rule's devices start in the initial range or, for weights of 0, at r_max
RuleResistances == {100000000, r_max}

\* what up to k pulses reach from the resistances in S
RECURSIVE Orbit(_, _)
Orbit(S, k) ==
    IF k = 0 THEN S ELSE S \cup Orbit({Pulsed(R) : R \in S}, k - 1)

\* what up to k pulses of either direction reach from the resistances in S
RECURSIVE Closure(_, _)
Closure(S, k) ==
    IF k = 0 THEN S
    ELSE S \cup Closure({Pulsed(R) : R \in S} \cup {Depressed(R) : R \in S},
                        k - 1)

Met == Orbit(LawSamples, MaxPulses) \cup Closure(RuleResistances, MaxSteps)

PulsedTable == [R \in Met |-> Pulsed(R)]
DepressedTable == [R \in Met |-> Depressed(R)]
\* (the conversion needs more than 32 bits below about 1e5 ohm)
ConductanceTable ==
    [R \in {Q \in Met : Q >= 10 ^ 6} |-> resistance2conductance(R)]

PulsedOnce(R) ==
    IF R \in DOMAIN PulsedTable THEN PulsedTable[R] ELSE Pulsed(R)

DepressedOnce(R) ==
    IF R \in DOMAIN DepressedTable THEN DepressedTable[R] ELSE Depressed(R)

ConductanceOnce(R) ==
    IF R \in DOMAIN ConductanceTable THEN ConductanceTable[R]
    ELSE resistance2conductance(R)

\* the new resistance: "same" raises the conductance on a positive signal
\* and lowers it on a negative one, "inverse" the other way round; a signal
\* of 0 has no direction and leaves the device as it is
MemristorPulse(R, signal, method) ==
    LET s == IF method = "inverse" THEN NumNeg(signal) ELSE signal
    IN  IF NumSign(s) > 0 THEN PulsedOnce(R)
        ELSE IF NumSign(s) < 0 THEN DepressedOnce(R)
        ELSE R

(***************************************************************************)
(* MemristorLearningRule.find_spikes                                       *)
(***************************************************************************)
None == <<>>

\* a faulty variant: halves rounded up
RintHalfUp(q) == (q + 2) \div 4

\* np.rint of q quarters: to the nearest integer, a half to the even one
Rint(q) ==
    LET f == q \div 4
        r == q % 4
    IN  IF r < 2 THEN f
        ELSE IF r > 2 THEN f + 1
        ELSE IF f % 2 = 0 THEN f ELSE f + 1

\* np.array( np.rint( v ), dtype=bool )
Spiked(q) == Rint(q) # 0

\* spiked_pre tiled over the rows, spiked_post over the columns (all ones
\* when output_activities is None), and their logical_and
find_spikes(outs, input_activities, output_activities) ==
    [s \in SlotsOf(outs) |->
        /\ Spiked(input_activities[s[2]])
        /\ (output_activities = None \/ Spiked(output_activities[s[1]]))]

\* np.transpose( np.where( spiked_map ) ): the gated slots in row-major order
RECURSIVE WhereFrom(_, _, _)
WhereFrom(outs, map, k) ==
    IF k > outs * input_size THEN <<>>
    ELSE LET s == <<((k - 1) \div input_size) + 1, ((k - 1) % input_size) + 1>>
         IN  (IF map[s] THEN <<s>> ELSE <<>>) \o WhereFrom(outs, map, k + 1)

Where(outs, map) == WhereFrom(outs, map, 1)

\* np.dot( self.weights, input_activities ), in quarters of a weight unit
RECURSIVE DotRow(_, _, _, _)
DotRow(w, v, j, i) ==
    IF i > input_size THEN 0 ELSE w[<<j, i>>] * v[i] + DotRow(w, v, j, i + 1)

Dot(outs, w, v) == [j \in 1 .. outs |-> DotRow(w, v, j, 1)]

(***************************************************************************)
(* The state a rule's loop works on, and one pulse of the loop:            *)
(* self.weights[ j, i ] = self.memristors[ j, i ].pulse( signal, ... )     *)
(***************************************************************************)
LoopState(m, w, p) == [memristors |-> m, weights |-> w, pulses |-> p]

PulseAt(st, s, signal, method) ==
    LET R == MemristorPulse(st.memristors[s], signal, method)
    IN  LoopState([st.memristors EXCEPT ![s] = R],
                  [st.weights EXCEPT ![s] = ConductanceOnce(R)],
                  Append(st.pulses, [slot |-> s, signal |-> signal]))

BoolSignal(b) == IF b THEN 1 ELSE 0

Frame(pre, post, theta, error) ==
    [pre |-> pre, post |-> post, theta |-> theta, error |-> error]

\* what a call leaves behind: the object's state and the vector it returns
Result(st, map, dir, out, err) ==
    [memristors |-> st.memristors, weights |-> st.weights,
     pulses |-> st.pulses, spiked_map |-> map, direction |-> dir,
     output |-> out, last_error |-> err]

(***************************************************************************)
(* mHopfieldHebbian.__call__                                               *)
(***************************************************************************)
\* a faulty variant: the diagonal not ignored
HebbianVisitDiagonal(st, s, map) ==
    PulseAt(PulseAt(st, s, Num(BoolSignal(map[s]), 0), "same"),
            <<s[2], s[1]>>, Num(BoolSignal(map[<<s[2], s[1]>>]), 0), "same")

\* a faulty variant: the second update not mirrored
HebbianVisitUnmirrored(st, s, map) ==
    IF s[2] # s[1]
    THEN PulseAt(PulseAt(st, s, Num(BoolSignal(map[s]), 0), "same"),
                 s, Num(BoolSignal(map[s]), 0), "same")
    ELSE st

\* the body of the loop at the gated slot s = (j, i): unless i = j, pulse
\* memristor (j, i) with spiked_map[ j, i ] and then memristor (i, j) with
\* spiked_map[ i, j ], each writing its weight
HebbianVisit(st, s, map) ==
    IF s[2] # s[1]
    THEN PulseAt(PulseAt(st, s, Num(BoolSignal(map[s]), 0), "same"),
                 <<s[2], s[1]>>, Num(BoolSignal(map[<<s[2], s[1]>>]), 0), "same")
    ELSE st

RECURSIVE HebbianLoop(_, _, _)
HebbianLoop(st, entries, map) ==
    IF entries = <<>> THEN st
    ELSE HebbianLoop(HebbianVisit(st, Head(entries), map), Tail(entries), map)

mHopfieldHebbian(m, w, f) ==
    LET input_activities == f.pre
        map == find_spikes(input_size, input_activities, input_activities)
        st == HebbianLoop(LoopState(m, w, <<>>), Where(input_size, map), map)
    IN  Result(st, map,
               [s \in SlotsOf(input_size) |-> Num(BoolSignal(map[s]), 0)],
               Dot(input_size, st.weights, input_activities), None)

(***************************************************************************)
(* mOja.__call__   (directions in units of alpha / 16)                     *)
(***************************************************************************)
beta == 1

\* self.alpha * output_activities * output_activities
post_squared(output_activities) ==
    [j \in 1 .. output_size |-> output_activities[j] * output_activities[j]]

\* -self.beta * self.weights * np.expand_dims( post_squared, axis=1 )
forgetting(w, output_activities) ==
    [s \in Slots |->
        Num(0, 0 - beta * w[s] * post_squared(output_activities)[s[1]])]

\* np.outer( self.alpha * output_activities, input_activities )
hebbian(input_activities, output_activities) ==
    [s \in Slots |-> Num(output_activities[s[1]] * input_activities[s[2]], 0)]

\* hebbian - forgetting
update_direction(w, input_activities, output_activities) ==
    [s \in Slots |->
        NumSub(hebbian(input_activities, output_activities)[s],
               forgetting(w, output_activities)[s])]

\* a loop that pulses every gated slot with its own instruction
RECURSIVE PulseLoop(_, _, _, _)
PulseLoop(st, entries, dir, method) ==
    IF entries = <<>> THEN st
    ELSE PulseLoop(PulseAt(st, Head(entries), dir[Head(entries)], method),
                   Tail(entries), dir, method)

\* a faulty variant: the output computed before the weights are updated
mOjaStaleOutput(m, w, f) ==
    LET dir == update_direction(w, f.pre, f.post)
        map == find_spikes(output_size, f.pre, f.post)
        st == PulseLoop(LoopState(m, w, <<>>), Where(output_size, map), dir, "same")
    IN  Result(st, map, dir, Dot(output_size, w, f.pre), None)

mOja(m, w, f) ==
    LET input_activities == f.pre
        output_activities == f.post
        dir == update_direction(w, input_activities, output_activities)
        map == find_spikes(output_size, input_activities, output_activities)
        st == PulseLoop(LoopState(m, w, <<>>), Where(output_size, map), dir, "same")
    IN  Result(st, map, dir, Dot(output_size, st.weights, input_activities), None)

(***************************************************************************)
(* mBCM.__call__                                                           *)
(***************************************************************************)
mBCM(m, w, f) ==
    LET input_activities == f.pre
        output_activities == f.post
        theta == f.theta
        \* update_direction = output_activities - theta, one per row
        dir == [s \in Slots |-> Num(output_activities[s[1]] - theta[s[1]], 0)]
        map == find_spikes(output_size, input_activities, output_activities)
        st == PulseLoop(LoopState(m, w, <<>>), Where(output_size, map), dir, "same")
    IN  Result(st, map, dir, Dot(output_size, st.weights, input_activities), None)

(***************************************************************************)
(* mPES.__call__   (errors in units of 5e-6, local errors in units of      *)
(* alpha * 5e-6 with alpha = learning_rate * dt / input_size > 0)          *)
(***************************************************************************)
\* 10**-5
ErrThreshold == 2

\* the encoders of a one-dimensional error: +1 on odd rows, -1 on even ones
encoders == [j \in 1 .. output_size |-> IF j % 2 = 1 THEN 1 ELSE 0 - 1]

Abs(v) == IF v < 0 THEN 0 - v ELSE v

\* error = x[ input_size: ] if abs( x[ input_size: ] ) > 10**-5 else 0
SquashedError(e) == IF Abs(e) > ErrThreshold THEN e ELSE 0

\* alpha * np.dot( self.encoders, error )
mPES_local_error(error) == [j \in 1 .. output_size |-> encoders[j] * error]

\* a faulty variant: every slot pulsed, gated or not
mPESUngated(m, w, f) ==
    LET error == SquashedError(f.error)
        dir == [s \in Slots |-> Num(mPES_local_error(error)[s[1]], 0)]
        map == [s \in Slots |-> TRUE]
        st == PulseLoop(LoopState(m, w, <<>>), Where(output_size, map), dir,
                        "inverse")
    IN  Result(st, find_spikes(output_size, f.pre, None), dir,
               Dot(output_size, st.weights, f.pre), error)

mPES(m, w, f) ==
    LET input_activities == f.pre
        error == SquashedError(f.error)
        dir == [s \in Slots |-> Num(mPES_local_error(error)[s[1]], 0)]
        map == find_spikes(output_size, input_activities, None)
        st == PulseLoop(LoopState(m, w, <<>>), Where(output_size, map), dir, "inverse")
    IN  Result(st, map, dir, Dot(output_size, st.weights, input_activities), error)

(***************************************************************************)
(* SimmPES.make_step.step_simmpes   (pes_delta in units of                 *)
(* learning_rate * dt / n_neurons * 5e-6 / 4)                              *)
(***************************************************************************)
\* alpha * np.dot( encoders, error ), with alpha = -learning_rate * dt / n
local_error(error) == [j \in 1 .. output_size |-> 0 - encoders[j] * error]

\* np.outer( local_error, pre_filtered )
pes_delta(error, pre_filtered) ==
    [s \in Slots |-> local_error(error)[s[1]] * pre_filtered[s[2]]]

\* np.sign( pes_delta ) * 1e-1, in tenths
V(error, pre_filtered) ==
    [s \in Slots |-> Sgn(pes_delta(error, pre_filtered)[s])]

\* a faulty variant: the positive branch pulsed wherever V is not negative
PosPulsedLoosely(pos, v) ==
    [s \in Slots |-> IF v[s] >= 0 THEN PulsedOnce(pos[s]) ELSE pos[s]]

\* n_pos = ((pos_memristors[ V > 0 ] - r_min) / r_max)**(1 / a)
\* pos_memristors[ V > 0 ] = r_min + r_max * (n_pos + 1)**a
PosPulsed(pos, v) ==
    [s \in Slots |-> IF v[s] > 0 THEN PulsedOnce(pos[s]) ELSE pos[s]]

\* n_neg = ((neg_memristors[ V < 0 ] - r_min) / r_max)**(1 / a)
\* neg_memristors[ V < 0 ] = r_min + r_max * (n_neg + 1)**a
NegPulsed(neg, v) ==
    [s \in Slots |-> IF v[s] < 0 THEN PulsedOnce(neg[s]) ELSE neg[s]]

step_simmpes(pos, neg, error, pre_filtered) ==
    LET v == V(error, pre_filtered)
        p == PosPulsed(pos, v)
        n == NegPulsed(neg, v)
    IN  [pos_memristors |-> p, neg_memristors |-> n,
         delta |-> [s \in Slots |-> ConductanceOnce(p[s])
                                    - ConductanceOnce(n[s])]]

(***************************************************************************)
(* Initial states.                                                         *)
(***************************************************************************)
LearningRules == {"mHopfieldHebbian", "mOja", "mBCM", "mPES"}

\* two draws laid out as a checkerboard
Checkerboard(outs, ra, rb) ==
    [s \in SlotsOf(outs) |-> IF (s[1] + s[2]) % 2 = 0 THEN ra ELSE rb]

Idle ==
    /\ t = 0
    /\ x = None
    /\ output = None
    /\ last_error = None
    /\ pulses = <<>>
    /\ spiked_map = None
    /\ direction = None
    /\ old = None

\* mHopfieldHebbian works on a square crossbar
OutputSize(r) == IF r = "mHopfieldHebbian" THEN input_size ELSE output_size

InitRule(r) ==
    /\ rule = r
    /\ Idle
    /\ \E ra \in RuleResistances, rb \in RuleResistances :
          /\ memristors = Checkerboard(OutputSize(r), ra, rb)
          /\ weights = [s \in SlotsOf(OutputSize(r)) |->
                ConductanceOnce(Checkerboard(OutputSize(r), ra, rb)[s])]
    /\ pos_memristors = None /\ neg_memristors = None /\ delta = None
    /\ device = None

\* build_mpes: both signals drawn from [1e8, 1.1e8]
InitSimmPES ==
    /\ rule = "SimmPES"
    /\ Idle
    /\ \E ra \in InitialResistances, rb \in InitialResistances :
          /\ pos_memristors = Checkerboard(output_size, ra, rb)
          /\ neg_memristors = Checkerboard(output_size, rb, ra)
    /\ delta = [s \in Slots |-> 0]
    /\ memristors = None /\ weights = None /\ device = None

\* find_spikes on its own: the activities of one call
InitGate ==
    /\ rule = "find_spikes"
    /\ t = 0
    /\ \E pre \in [1 .. input_size -> GateActivities],
          post \in [1 .. output_size -> GateActivities] \cup {None} :
          x = Frame(pre, post, None, None)
    /\ output = None /\ last_error = None /\ pulses = <<>>
    /\ spiked_map = None /\ direction = None /\ old = None
    /\ memristors = None /\ weights = None /\ device = None
    /\ pos_memristors = None /\ neg_memristors = None /\ delta = None

InitLaw ==
    /\ rule = "powerlaw"
    /\ Idle
    /\ device \in LawSamples
    /\ memristors = None /\ weights = None
    /\ pos_memristors = None /\ neg_memristors = None /\ delta = None

(***************************************************************************)
(* Steps.                                                                  *)
(***************************************************************************)
Vectors(n, S) == [1 .. n -> S]

\* a call of a learning rule with frame f, r its result
Call(f, r) ==
    /\ t < MaxSteps
    /\ t' = t + 1
    /\ x' = f
    /\ memristors' = r.memristors
    /\ weights' = r.weights
    /\ pulses' = r.pulses
    /\ spiked_map' = r.spiked_map
    /\ direction' = r.direction
    /\ output' = r.output
    /\ last_error' = r.last_error
    /\ old' = [memristors |-> memristors, weights |-> weights]
    /\ UNCHANGED <<rule, pos_memristors, neg_memristors, delta, device>>

HebbianStep ==
    /\ rule = "mHopfieldHebbian"
    /\ \E pre \in Vectors(input_size, Activities) :
          LET f == Frame(pre, None, None, None)
          IN  Call(f, mHopfieldHebbian(memristors, weights, f))

OjaStep ==
    /\ rule = "mOja"
    /\ \E pre \in Vectors(input_size, Rates),
          post \in Vectors(output_size, Rates) :
          LET f == Frame(pre, post, None, None)
          IN  Call(f, mOja(memristors, weights, f))

BCMStep ==
    /\ rule = "mBCM"
    /\ \E pre \in Vectors(input_size, Rates),
          post \in Vectors(output_size, Rates), theta \in Thetas :
          LET f == Frame(pre, post, [j \in 1 .. output_size |-> theta], None)
          IN  Call(f, mBCM(memristors, weights, f))

PESStep ==
    /\ rule = "mPES"
    /\ \E pre \in Vectors(input_size, Activities), error \in Errors :
          LET f == Frame(pre, None, None, error)
          IN  Call(f, mPES(memristors, weights, f))

SimmPESStep ==
    /\ rule = "SimmPES"
    /\ t < MaxSteps
    /\ \E pre \in Vectors(input_size, Activities), error \in SimmErrors :
          LET r == step_simmpes(pos_memristors, neg_memristors, error, pre)
          IN  /\ x' = Frame(pre, None, None, error)
              /\ pos_memristors' = r.pos_memristors
              /\ neg_memristors' = r.neg_memristors
              /\ delta' = r.delta
    /\ old' = [pos_memristors |-> pos_memristors,
               neg_memristors |-> neg_memristors]
    /\ t' = t + 1
    /\ UNCHANGED <<rule, memristors, weights, output, last_error, pulses,
                   spiked_map, direction, device>>

\* one pulse of the power law on a single device
PulseStep ==
    /\ rule = "powerlaw"
    /\ t < MaxPulses
    /\ device' = PulsedOnce(device)
    /\ old' = device
    /\ t' = t + 1
    /\ UNCHANGED <<rule, x, memristors, weights, output, last_error, pulses,
                   pos_memristors, neg_memristors, delta, spiked_map,
                   direction>>

\* find_spikes applied to the activities drawn
GateStep ==
    /\ rule = "find_spikes"
    /\ t = 0
    /\ t' = 1
    /\ spiked_map' = find_spikes(output_size, x.pre, x.post)
    /\ UNCHANGED <<rule, x, memristors, weights, output, last_error, pulses,
                   pos_memristors, neg_memristors, delta, direction, device,
                   old>>

Init ==
    \/ \E r \in LearningRules : InitRule(r)
    \/ InitSimmPES
    \/ InitLaw
    \/ InitGate

Next ==
    \/ HebbianStep
    \/ OjaStep
    \/ BCMStep
    \/ PESStep
    \/ SimmPESStep
    \/ PulseStep
    \/ GateStep

Spec == Init /\ [][Next]_vars

\* one object at a time
SpecHebbian == InitRule("mHopfieldHebbian") /\ [][HebbianStep]_vars
SpecOja == InitRule("mOja") /\ [][OjaStep]_vars
SpecSimmPES == InitSimmPES /\ [][SimmPESStep]_vars
SpecLaw == InitLaw /\ [][PulseStep]_vars
SpecGate == InitGate /\ [][GateStep]_vars

\* the supervised rule in its two implementations
NextSupervised == PESStep \/ SimmPESStep
SpecSupervised == (InitRule("mPES") \/ InitSimmPES) /\ [][NextSupervised]_vars

\* the four learning rules
NextRules == HebbianStep \/ OjaStep \/ BCMStep \/ PESStep
SpecRules == (\E r \in LearningRules : InitRule(r)) /\ [][NextRules]_vars

(***************************************************************************)
(* Properties.                                                             *)
(***************************************************************************)
InRange(R) == r_min <= R /\ R <= r_max

\* C1: in SimmPES every device of the positive and of the negative array
\* has a resistance between r_min and r_max, at construction and after
\* every step.
C1_ResistanceBounds ==
    rule = "SimmPES" =>
        \A s \in Slots :
            InRange(pos_memristors[s]) /\ InRange(neg_memristors[s])

\* a positive device pulsed in two successive steps
C1_PulsedTwice ==
    /\ rule = "SimmPES"
    /\ t = 2
    /\ \E s \in Slots :
          /\ pos_memristors[s] < old.pos_memristors[s]
          /\ old.pos_memristors[s] \notin InitialResistances

\* C10: a step of SimmPES changes a positive device only where pes_delta is
\* positive and a negative device only where it is negative: never both
\* devices of a pair, and neither of them where pes_delta is zero.
C10_PairFrame ==
    (rule = "SimmPES" /\ t > 0) =>
        \A s \in Slots :
            LET d == pes_delta(x.error, x.pre)[s]
                posChanged == pos_memristors[s] # old.pos_memristors[s]
                negChanged == neg_memristors[s] # old.neg_memristors[s]
            IN  /\ posChanged => d > 0
                /\ negChanged => d < 0
                /\ ~(posChanged /\ negChanged)
                /\ d = 0 => ~posChanged /\ ~negChanged

\* a step that pulsed one device of a pair and left another pair alone
C10_OnePulsedOneKept ==
    /\ rule = "SimmPES"
    /\ t > 0
    /\ \E s \in Slots :
          /\ pes_delta(x.error, x.pre)[s] > 0
          /\ pos_memristors[s] # old.pos_memristors[s]
          /\ neg_memristors[s] = old.neg_memristors[s]
    /\ \E s \in Slots :
          /\ pes_delta(x.error, x.pre)[s] = 0
          /\ x.error # 0

\* C7 as stated: a pulse strictly lowers every resistance above r_min, and
\* leaves r_min where it is.
C7_StrictUntilSaturation ==
    (rule = "powerlaw" /\ t > 0) =>
        /\ (r_min < old /\ old <= r_max) => device < old
        /\ old = r_min => device = r_min
        /\ device >= r_min

\* C7: a pulse never takes a resistance of the range below r_min; from
\* 5e7 ohm upwards (the initial resistances are 1e8 and more) it strictly
\* lowers it and leaves it above r_min; at r_min it changes nothing.
C7_Monotone ==
    (rule = "powerlaw" /\ t > 0 /\ InRange(old)) =>
        /\ device >= r_min
        /\ old >= 5 * 10 ^ 7 => (device < old /\ device > r_min)
        /\ old = r_min => device = r_min

\* a pulse that lowered a device pulsed before
C7_Lowered ==
    /\ rule = "powerlaw"
    /\ t > 1
    /\ device < old
    /\ old >= 5 * 10 ^ 7

Diagonal == {s \in SlotsOf(input_size) : s[1] = s[2]}
Mirror(s) == <<s[2], s[1]>>

\* C4: no step of mHopfieldHebbian pulses a memristor (i, i) or writes a
\* weight (i, i): every step leaves the diagonal devices and weights as
\* they were, so that they keep their initial values for ever.
C4_DiagonalExclusion ==
    [][rule = "mHopfieldHebbian" =>
          /\ \A s \in Diagonal :
                /\ memristors'[s] = memristors[s]
                /\ weights'[s] = weights[s]
          /\ \A k \in DOMAIN pulses' : pulses'[k].slot \notin Diagonal]_vars

\* a step in which a diagonal slot was gated and an off-diagonal one updated
C4_DiagonalGated ==
    /\ rule = "mHopfieldHebbian"
    /\ t > 0
    /\ \E s \in Diagonal : spiked_map[s]
    /\ \E s \in SlotsOf(input_size) \ Diagonal :
          memristors[s] # old.memristors[s]

\* C5: in a step of mHopfieldHebbian every update of an entry (j, i) with
\* i # j is followed at once by the update of the mirrored entry (i, j):
\* memristor (i, j) pulsed with the gate value at (i, j) and weight (i, j)
\* rewritten from its resistance.
C5_MirroredUpdates ==
    (rule = "mHopfieldHebbian" /\ t > 0) =>
        /\ Len(pulses) % 2 = 0
        /\ \A k \in 1 .. Len(pulses) \div 2 :
              LET first == pulses[2 * k - 1]
                  second == pulses[2 * k]
              IN  /\ first.slot \notin Diagonal
                  /\ second.slot = Mirror(first.slot)
                  /\ first.signal = Num(BoolSignal(spiked_map[first.slot]), 0)
                  /\ second.signal
                        = Num(BoolSignal(spiked_map[second.slot]), 0)
        /\ \A k \in DOMAIN pulses :
              /\ weights[pulses[k].slot]
                    = resistance2conductance(memristors[pulses[k].slot])
              /\ weights[Mirror(pulses[k].slot)]
                    = resistance2conductance(
                          memristors[Mirror(pulses[k].slot)])

\* a step that updated an entry and its mirror
C5_PairUpdated ==
    /\ rule = "mHopfieldHebbian"
    /\ t > 0
    /\ \E s \in SlotsOf(input_size) \ Diagonal :
          /\ memristors[s] # old.memristors[s]
          /\ memristors[Mirror(s)] # old.memristors[Mirror(s)]
          /\ weights[Mirror(s)] # old.weights[Mirror(s)]

\* an activity in quarters counts as spiked when it is above one half
AboveHalf(q) == q > 2
AtLeastHalf(q) == q >= 2

\* C9 as stated: entry (j, i) of the matrix find_spikes returns is true
\* exactly when pre_i and post_j (when given) are at least 0.5.
C9_SpikedFromHalf ==
    (rule = "find_spikes" /\ t > 0) =>
        /\ DOMAIN spiked_map = Slots
        /\ \A s \in Slots :
              spiked_map[s] <=>
                  /\ AtLeastHalf(x.pre[s[2]])
                  /\ x.post # None => AtLeastHalf(x.post[s[1]])

\* C9: find_spikes returns an output_size x input_size boolean matrix
\* whose entry (j, i) is true exactly when pre_i rounds to a nonzero whole
\* number and, when post is given, post_j does too; for the rates here,
\* which are not negative, that is a rate above 0.5: at exactly 0.5 the
\* rounding (half to even) gives 0 and the activity is not spiked.  The
\* matrix is a function of the vectors of the call alone.
C9_SpikedAboveHalf ==
    (rule = "find_spikes" /\ t > 0) =>
        /\ DOMAIN spiked_map = Slots
        /\ \A s \in Slots :
              spiked_map[s] <=>
                  /\ AboveHalf(x.pre[s[2]])
                  /\ x.post # None => AboveHalf(x.post[s[1]])

\* a call with a rate of exactly 0.5 beside a spiked one
C9_ExactlyHalf ==
    /\ rule = "find_spikes"
    /\ t > 0
    /\ x.post # None
    /\ \E s \in Slots :
          x.pre[s[2]] = 2 /\ x.post[s[1]] = 4 /\ ~spiked_map[s]
    /\ \E s \in Slots : spiked_map[s]

\* what a step did to entry s of a rule's crossbar, to pair s of SimmPES
EntryChanged(s) ==
    memristors[s] # old.memristors[s] \/ weights[s] # old.weights[s]
PairChanged(s) ==
    \/ pos_memristors[s] # old.pos_memristors[s]
    \/ neg_memristors[s] # old.neg_memristors[s]
PulsesAt(s) == {k \in DOMAIN pulses : pulses[k].slot = s}

C3_SmallErrorSquashed ==
    /\ (rule = "mPES" /\ t > 0 /\ Abs(x.error) < ErrThreshold) =>
          /\ last_error = 0
          /\ \A s \in Slots : direction[s] = Num(0, 0) /\ ~EntryChanged(s)
    /\ (rule = "SimmPES" /\ t > 0 /\ Abs(x.error) < ErrThreshold) =>
          \A s \in Slots : ~PairChanged(s)

\* C6: the vector a step of any of the four rules returns is the product of
\* the weight matrix as the step left it with the pre-activities.
C6_OutputFromNewWeights ==
    (rule \in LearningRules /\ t > 0) =>
        output = Dot(OutputSize(rule), weights, x.pre)

\* a step whose result differs from the product with the weights before it
C6_WeightsMoved ==
    /\ rule \in LearningRules
    /\ t > 0
    /\ weights # old.weights
    /\ output # Dot(OutputSize(rule), old.weights, x.pre)

\* C8: in a step of mOja the direction of a gated entry (j, i) is the
\* Hebbian term alpha * post_j * pre_i minus the decay term
\* beta * weight[ j, i ] * alpha * post_j^2, and so below the Hebbian term
\* when the weight is positive and post_j is not 0.
C8_HebbianMinusDecay ==
    (rule = "mOja" /\ t > 0) =>
        \A s \in Slots :
            LET hebbianTerm == Num(x.post[s[1]] * x.pre[s[2]], 0)
                decayTerm ==
                    Num(0, beta * old.weights[s] * x.post[s[1]] * x.post[s[1]])
            IN  spiked_map[s] =>
                    /\ direction[s] = NumSub(hebbianTerm, decayTerm)
                    /\ (old.weights[s] > 0 /\ x.post[s[1]] # 0) =>
                          NumLess(direction[s], hebbianTerm)

====
